---------------------------- MODULE Spec2Model ----------------------------
(***************************************************************************)
(* A model of sync.py, a nano-like terminal editor: the module-level       *)
(* startup code (argv, load, language detection), the three key-binding    *)
(* handlers (Ctrl+O save, Ctrl+X exit, Alt+L change language) and the      *)
(* line-ending translation done by the save handler and by the text-mode   *)
(* read at load.                                                           *)
(*                                                                         *)
(* Python strings are sequences of one-character strings, so that          *)
(* str.lower, str.replace, os.path.splitext and the universal-newline      *)
(* read are computed character by character.  A character outside ASCII    *)
(* is written by its code point ("U+212A").  Python's None is the value    *)
(* None below, which is no string.                                         *)
(*                                                                         *)
(* The handlers run on a single-threaded event loop and their dialogs are  *)
(* modal, so each handler is one atomic action whose dialog answers are    *)
(* inputs.                                                                 *)
(*                                                                         *)
(* As written, and run on Python 3 with prompt_toolkit 3, the program      *)
(* stops at the first of five defects:                                     *)
(*  1. line 134 is indented with a tab under a four-space `else:`: the     *)
(*     file does not compile (TabError);                                   *)
(*  2. lexer_for passes a lexer instance where PygmentsLexer takes a lexer *)
(*     class: TypeError at line 66, for every language pygments knows;     *)
(*  3. line 152 tests `name`, not `__name__`: NameError, app.run() is      *)
(*     never called;                                                       *)
(*  4. prompt_toolkit's Document has no attribute is_dirty: AttributeError *)
(*     at line 79, at the first render;                                    *)
(*  5. input_dialog(...).run() and message_dialog(...).run() raise         *)
(*     RuntimeError inside the running application.                        *)
(* The variable `build` says which of the five the build the program runs  *)
(* on stands in for; it is chosen at startup and never changes.  With all  *)
(* FALSE the model is the program as written: it ends in Init with         *)
(* TabError.  Each defect not stood in for has its outcome in the model    *)
(* (the exception, in `crash`, and the state it leaves behind); the        *)
(* handlers are modelled as their text reads, line 134 as the body of the  *)
(* `else:` above it.                                                       *)
(*                                                                         *)
(* The file is read in text mode (universal newlines) and written with     *)
(* newline="" (no translation).                                            *)
(***************************************************************************)
EXTENDS Integers, Sequences, FiniteSets, TLC

VARIABLES
    build,         \* which defects of the program the build stands in for
    crash,         \* the exception that ended startup or the last handler,
                   \* "none" when it returned
    argv,          \* sys.argv[1], None when the program got no argument
    filename,      \* module global `filename`: None or a string
    text,          \* editor.text, the in-memory document
    is_dirty,      \* editor.buffer.document.is_dirty where the build has
                   \* that attribute (build.dirty_attr), FALSE otherwise
    current_lang,  \* module global `current_lang`
    lexer,         \* editor.lexer: the language its lexer was built for, or None
    current_eol,   \* module global `current_eol`
    running,       \* the application is running: app.run() was entered and
                   \* event.app.exit() has not been called
    fs,            \* the file system: path -> [exists, data]
    shown,         \* the dialogs run by the last handler, in order
    eol_chosen,    \* history: some save has accepted an EOL choice
    last           \* history: the last command, its inputs and its outcome

vars == <<build, crash, argv, filename, text, is_dirty, current_lang, lexer,
          current_eol, running, fs, shown, eol_chosen, last>>

----------------------------------------------------------------------------
(* Bounds *)

\* longest document text an edit grows the document to, and longest of the
\* short file contents a session starts on, in characters
MaxLen == 1

\* longest document text of the save/load round trips, in characters
MaxCodecLen == 3

----------------------------------------------------------------------------
(* Strings *)

None == <<"None">>

\* the value of a global that startup has not bound
Unbound == <<"Unbound">>

LF == "\n"
CR == "\r"

\* bool(x) for x a string or None
Truthy(x) == x # None /\ x # <<>>

Range(s) == {s[i] : i \in 1..Len(s)}

UpperCase == <<"A","B","C","D","E","F","G","H","I","J","K","L","M",
               "N","O","P","Q","R","S","T","U","V","W","X","Y","Z">>
LowerCase == <<"a","b","c","d","e","f","g","h","i","j","k","l","m",
               "n","o","p","q","r","s","t","u","v","w","x","y","z">>

\* str.lower() of one character, for the characters it changes: the ASCII
\* capitals and, outside ASCII, KELVIN SIGN (U+212A, to "k"), A WITH
\* DIAERESIS (U+00C4, to U+00E4) and I WITH DOT ABOVE (U+0130, to "i"
\* followed by COMBINING DOT ABOVE, two characters)
LowerOf ==
    [c \in Range(UpperCase) |->
        <<LowerCase[CHOOSE i \in 1..Len(UpperCase) : UpperCase[i] = c]>>] @@
    ("U+212A" :> <<"k">>) @@
    ("U+00C4" :> <<"U+00E4">>) @@
    ("U+0130" :> <<"i", "U+0307">>)

\* str.upper() of one character, for the characters of the model it changes
UpperOf ==
    [c \in Range(LowerCase) |->
        UpperCase[CHOOSE i \in 1..Len(LowerCase) : LowerCase[i] = c]] @@
    ("U+00E4" :> "U+00C4")

LowerChar(c) == IF c \in DOMAIN LowerOf THEN LowerOf[c] ELSE <<c>>

UpperChar(c) == IF c \in DOMAIN UpperOf THEN UpperOf[c] ELSE c

\* str.lower()
RECURSIVE lower(_)
lower(s) == IF s = <<>> THEN <<>> ELSE LowerChar(Head(s)) \o lower(Tail(s))

\* str.upper(), on the strings the program applies it to (the mode names)
upper(s) == [i \in 1..Len(s) |-> UpperChar(s[i])]

\* str.rfind(c) + 1: the last index of c in s, 0 when there is none
rfind(s, c) ==
    IF \E i \in 1..Len(s) : s[i] = c
    THEN CHOOSE i \in 1..Len(s) : s[i] = c /\ \A j \in (i+1)..Len(s) : s[j] # c
    ELSE 0

\* os.path.splitext(p)[1] (posixpath): the extension starts at the last dot
\* after the last "/", unless only dots precede it in the file name
splitext_ext(p) ==
    LET sepIndex == rfind(p, "/")
        dotIndex == rfind(p, ".")
    IN  IF /\ dotIndex > sepIndex
           /\ \E k \in (sepIndex+1)..(dotIndex-1) : p[k] # "."
        THEN SubSeq(p, dotIndex, Len(p))
        ELSE <<>>

\* str.lstrip(c)
RECURSIVE lstrip(_, _)
lstrip(s, c) ==
    IF s # <<>> /\ Head(s) = c THEN lstrip(Tail(s), c) ELSE s

\* str.replace(LF, new): every LF replaced, scanning left to right
RECURSIVE replace_lf(_, _)
replace_lf(s, new) ==
    IF s = <<>> THEN <<>>
    ELSE IF Head(s) = LF THEN new \o replace_lf(Tail(s), new)
    ELSE <<Head(s)>> \o replace_lf(Tail(s), new)

\* variant of read_text: the file is opened with newline="", nothing is
\* translated
read_untranslated(raw) == raw

\* f.read() of a file opened in text mode with newline=None (universal
\* newlines): CR LF, a lone CR and LF all read as LF
RECURSIVE read_text(_)
read_text(raw) ==
    IF raw = <<>> THEN <<>>
    ELSE IF Head(raw) = CR
         THEN IF Len(raw) >= 2 /\ raw[2] = LF
              THEN <<LF>> \o read_text(Tail(Tail(raw)))
              ELSE <<LF>> \o read_text(Tail(raw))
         ELSE <<Head(raw)>> \o read_text(Tail(raw))

----------------------------------------------------------------------------
(* Program constants *)

SUPPORTED_LANGS == <<
    <<"p","y","t","h","o","n">>,
    <<"j","a","v","a","s","c","r","i","p","t">>,
    <<"t","y","p","e","s","c","r","i","p","t">>,
    <<"h","t","m","l">>,
    <<"c","s","s">>,
    <<"b","a","s","h">>,
    <<"c">>,
    <<"c","p","p">>,
    <<"r","u","s","t">>,
    <<"j","a","v","a">>,
    <<"g","o">>,
    <<"r","u","b","y">>,
    <<"p","h","p">>,
    <<"c","s","h","a","r","p">>,
    <<"s","w","i","f","t">>,
    <<"k","o","t","l","i","n">>,
    <<"s","c","a","l","a">>,
    <<"p","e","r","l">>,
    <<"l","u","a">>,
    <<"h","a","s","k","e","l","l">>,
    <<"e","l","i","x","i","r">>,
    <<"r">>,
    <<"d","a","r","t">>,
    <<"s","q","l">>,
    <<"f","o","r","t","r","a","n">>,
    <<"e","r","l","a","n","g">> >>

\* the dict literal of detect_lang
EXT_LANG ==
    (<<"p","y">> :> <<"p","y","t","h","o","n">>) @@
    (<<"j","s">> :> <<"j","a","v","a","s","c","r","i","p","t">>) @@
    (<<"t","s">> :> <<"t","y","p","e","s","c","r","i","p","t">>) @@
    (<<"h","t","m","l">> :> <<"h","t","m","l">>) @@
    (<<"c","s","s">> :> <<"c","s","s">>) @@
    (<<"c">> :> <<"c">>) @@
    (<<"c","p","p">> :> <<"c","p","p">>) @@
    (<<"c","c">> :> <<"c","p","p">>) @@
    (<<"r","s">> :> <<"r","u","s","t">>) @@
    (<<"j","a","v","a">> :> <<"j","a","v","a">>) @@
    (<<"g","o">> :> <<"g","o">>) @@
    (<<"s","h">> :> <<"b","a","s","h">>)

python == <<"p","y","t","h","o","n">>

unix == <<"u","n","i","x">>
dos == <<"d","o","s">>
mac == <<"m","a","c">>

EOL_FORMATS ==
    (unix :> <<LF>>) @@
    (dos :> <<CR, LF>>) @@
    (mac :> <<CR>>)

\* the value `current_eol` is given at module level
InitialEol == unix

----------------------------------------------------------------------------
(* Pure functions of the program *)

\* variant of DefaultLang: a name outside SUPPORTED_LANGS
DefaultLangText == <<"t","e","x","t">>

\* the default of the dict lookup in detect_lang, and its result for no name
DefaultLang == python

detect_lang(fname) ==
    IF ~Truthy(fname) THEN DefaultLang
    ELSE LET ext == lstrip(lower(splitext_ext(fname)), ".")
         IN  IF ext \in DOMAIN EXT_LANG THEN EXT_LANG[ext] ELSE DefaultLang

\* the names pygments' get_lexer_by_name resolves, among those the program
\* can pass to it
LexerNames == Range(SUPPORTED_LANGS)

\* what lexer_for gives when PygmentsLexer(...) raises
RaisesTypeError == <<"raises TypeError">>

\* lexer_for: None on ClassNotFound; for a name pygments resolves,
\* PygmentsLexer is given the lexer instance and calls it: TypeError, unless
\* the build stands in for that, and then a lexer for lang (identified by
\* lang)
lexer_for(lang) ==
    IF lang \in LexerNames
    THEN IF build.lexer_cls THEN lang ELSE RaisesTypeError
    ELSE None

\* variant of EolAccepted: the answer is not lower-cased
EolAcceptedExact(eol_choice) ==
    Truthy(eol_choice) /\ eol_choice \in DOMAIN EOL_FORMATS

\* `eol_choice and eol_choice.lower() in EOL_FORMATS`
EolAccepted(eol_choice) ==
    Truthy(eol_choice) /\ lower(eol_choice) \in DOMAIN EOL_FORMATS

\* the mode the save handler writes with, given the answer of its EOL dialog
EolAfterChoice(eol_choice) ==
    IF EolAccepted(eol_choice) THEN lower(eol_choice) ELSE current_eol

\* variant of Serialize: str.replace with count 1, the first LF only
SerializeFirst(txt, mode) ==
    IF \E i \in 1..Len(txt) : txt[i] = LF
    THEN LET i == CHOOSE k \in 1..Len(txt) :
                    txt[k] = LF /\ \A j \in 1..(k-1) : txt[j] # LF
         IN  SubSeq(txt, 1, i - 1) \o EOL_FORMATS[mode]
                \o SubSeq(txt, i + 1, Len(txt))
    ELSE txt

\* `editor.text.replace("\n", EOL_FORMATS[current_eol])`
Serialize(txt, mode) == replace_lf(txt, EOL_FORMATS[mode])

\* variant of LangAccepted: the membership test is missing
LangAcceptedAny(choice) == TRUE

\* `choice in SUPPORTED_LANGS`, choice already lower-cased
LangAccepted(choice) == choice \in Range(SUPPORTED_LANGS)

\* `ans and ans.lower() == "y"`
AnswerIsYes(ans) == Truthy(ans) /\ lower(ans) = <<"y">>

\* the dirty marker of status_text; reading the flag raises AttributeError
\* where the Document has no such attribute
DirtyMarker ==
    IF ~build.dirty_attr THEN "raises AttributeError"
    ELSE IF is_dirty THEN "*" ELSE ""

NoName == <<"[","N","o"," ","N","a","m","e","]">>

\* status_text(): the variable parts of the status line, in order
status_text ==
    << IF Truthy(filename) THEN filename ELSE NoName,
       DirtyMarker, current_lang, upper(current_eol) >>

----------------------------------------------------------------------------
(* Inputs: the build, command-line arguments, file contents, dialog        *)
(* answers, and the outcome of the file write                              *)

\* For each defect, whether the build stands in for it: the file compiles,
\* PygmentsLexer accepts what lexer_for gives it, main() is called, the
\* Document has an is_dirty flag, dialogs run inside the application.
Builds ==
    [compiles : BOOLEAN, lexer_cls : BOOLEAN, main_runs : BOOLEAN,
     dirty_attr : BOOLEAN, dialogs : BOOLEAN]

Chars == {"a", LF, CR}

\* the document texts and file contents of at most MaxLen characters
Texts == UNION {[1..n -> Chars] : n \in 0..MaxLen}

\* the contents of the file the program is started on: every short content
\* (a lone CR and a lone LF among them), and files whose terminators are
\* one CR LF, a CR LF majority over LF, and a CR majority over LF
FileInputs ==
    Texts \cup { <<CR, LF>>, <<CR, LF, CR, LF, LF>>, <<LF, CR, CR>> }

\* sys.argv[1], None when absent
ArgvInputs ==
    { None, <<"a",".","p","y">>, <<"B",".","J","S">>, <<".","c">> }

\* answers of the "Save As" dialog (None: cancelled)
SaveAsInputs == { None, <<>>, <<"n",".","g","o">> }

\* answers of the "Select Line Ending" dialog
EolInputs ==
    { None, <<>>, unix, <<"D","O","S">>, <<"M","a","c">>, <<"d","o","s"," ">> }

\* answers of the "Exit" dialog
QuitInputs == { None, <<>>, <<"Y">>, <<"n">> }

\* answers of the "Language" dialog; the fourth is "KOTLIN" with KELVIN SIGN
\* for its first letter
LangInputs ==
    { None, <<>>, python, <<"U+212A","O","T","L","I","N">>, <<"z","z","z">> }

\* what open(filename, "w") and f.write(content) do: succeed, or raise at
\* open (nothing written), or raise in the write, after the file was
\* truncated and some proper prefix of the content went out
WriteOutcomes == { "ok", "open_fails", "write_fails" }

\* the lengths of the prefix a failing write of content can leave
Cuts(content, wr) ==
    IF wr = "write_fails" /\ Len(content) > 0
    THEN 0..(Len(content) - 1)
    ELSE {0}

Paths == { p \in ArgvInputs \cup SaveAsInputs : Truthy(p) }

NoFile == [exists |-> FALSE, data |-> <<>>]

File(data) == [exists |-> TRUE, data |-> data]

----------------------------------------------------------------------------
(* Dialogs *)

InputDialog(title, answer) ==
    [kind |-> "input", title |-> title, text |-> "", args |-> <<>>,
     answer |-> answer]

MessageDialog(title, txt, args) ==
    [kind |-> "message", title |-> title, text |-> txt, args |-> args,
     answer |-> None]

----------------------------------------------------------------------------
(* Startup: module-level code *)

\* `text = ""`, replaced by the file's content when the path exists
LoadText(fname, fsys) ==
    IF Truthy(fname) /\ fsys[fname].exists
    THEN read_text(fsys[fname].data)
    ELSE <<>>

\* `filename = sys.argv[1] if len(sys.argv) > 1 else None`
InitialFilename(arg) == arg

\* The globals after the module-level code has run with argument arg on the
\* file system fsys, and the exception that ended it: nothing is bound when
\* the file does not compile; line 66 raises before `editor` and
\* `current_eol` are bound; line 152 raises, or the first render does, with
\* everything bound and the application not running.
Startup(arg, fsys) ==
    LET fname == InitialFilename(arg)
        txt == LoadText(fname, fsys)
        lang == detect_lang(fname)
        lx == lexer_for(lang)
        bound == [filename |-> fname, text |-> txt, current_lang |-> lang,
                  lexer |-> lx, current_eol |-> InitialEol]
    IN  IF ~build.compiles
        THEN [crash |-> "TabError", running |-> FALSE,
              filename |-> Unbound, text |-> Unbound,
              current_lang |-> Unbound, lexer |-> Unbound,
              current_eol |-> Unbound]
        ELSE IF lx = RaisesTypeError
        THEN [crash |-> "TypeError", running |-> FALSE,
              filename |-> fname, text |-> txt, current_lang |-> lang,
              lexer |-> Unbound, current_eol |-> Unbound]
        ELSE IF ~build.main_runs
        THEN [crash |-> "NameError", running |-> FALSE] @@ bound
        ELSE IF ~build.dirty_attr
        THEN [crash |-> "AttributeError", running |-> FALSE] @@ bound
        ELSE [crash |-> "none", running |-> TRUE] @@ bound

NoInputs ==
    [ans |-> None, fname_in |-> None, eol_in |-> None, lang_in |-> None,
     wr |-> "na", outcome |-> "none"]

Init ==
    \E b \in Builds, arg \in ArgvInputs, raw \in FileInputs, there \in BOOLEAN :
        /\ (there => Truthy(arg))
        /\ (~there => raw = <<>>)
        /\ build = b
        /\ argv = arg
        /\ fs = [p \in Paths |-> IF there /\ p = arg THEN File(raw) ELSE NoFile]
        /\ LET s == Startup(argv, fs)
           IN  /\ crash = s.crash
               /\ filename = s.filename
               /\ text = s.text
               /\ current_lang = s.current_lang
               /\ lexer = s.lexer
               /\ current_eol = s.current_eol
               /\ running = s.running
        /\ is_dirty = FALSE
        /\ shown = <<>>
        /\ eol_chosen = FALSE
        /\ last = [cmd |-> "start"] @@ NoInputs

----------------------------------------------------------------------------
(* Editing: the TextArea widget changes editor.text; the unsaved-changes   *)
(* flag, where the build has one, is up from then on                       *)

InsertAt(s, i, c) == SubSeq(s, 1, i) \o <<c>> \o SubSeq(s, i + 1, Len(s))

DeleteAt(s, i) == SubSeq(s, 1, i - 1) \o SubSeq(s, i + 1, Len(s))

\* what an edit does to the unsaved-changes flag
DirtyAfterEdit == TRUE

InsertChar ==
    /\ running
    /\ Len(text) < MaxLen
    /\ \E i \in 0..Len(text), c \in Chars : text' = InsertAt(text, i, c)
    /\ is_dirty' = DirtyAfterEdit
    /\ shown' = <<>>
    /\ crash' = "none"
    /\ last' = [cmd |-> "edit"] @@ NoInputs
    /\ UNCHANGED <<build, argv, filename, current_lang, lexer, current_eol,
                   running, fs, eol_chosen>>

DeleteChar ==
    /\ running
    /\ \E i \in 1..Len(text) : text' = DeleteAt(text, i)
    /\ is_dirty' = DirtyAfterEdit
    /\ shown' = <<>>
    /\ crash' = "none"
    /\ last' = [cmd |-> "edit"] @@ NoInputs
    /\ UNCHANGED <<build, argv, filename, current_lang, lexer, current_eol,
                   running, fs, eol_chosen>>

----------------------------------------------------------------------------
(* Ctrl+O: the save handler *)

\* the file system after `open(fn, "w", newline="")` and `f.write(content)`;
\* a write that raises leaves the first `cut` characters of content
WriteFile(fsys, fn, content, wr, cut) ==
    CASE wr = "ok"          -> [fsys EXCEPT ![fn] = File(content)]
      [] wr = "open_fails"  -> fsys
      [] wr = "write_fails" -> [fsys EXCEPT ![fn] = File(SubSeq(content, 1, cut))]

\* the message dialog that ends a save: "Saved", or "Error" with str(e)
SaveMessage(fn, eol, wr) ==
    IF wr = "ok"
    THEN MessageDialog("Saved",
            "File saved as {filename} ({current_eol.upper()})",
            <<fn, upper(eol)>>)
    ELSE MessageDialog("Error", "{str(e)}", <<wr>>)

\* variant of AsksName: the dialog is run whether a path is bound or not
AsksNameAlways == TRUE

\* does the save handler run the "Save As" dialog?
AsksName == ~Truthy(filename)

\* the unsaved-changes flag after the save handler has run
DirtyAfterSave(outcome) == is_dirty

\* The effects of one run of the save handler on the current state, for the
\* answers fname_in and eol_in of its dialogs, the outcome wr of the write
\* and, for a write that raises, the length cut of what it left.
SaveRun(fname_in, eol_in, wr, cut) ==
    IF AsksName /\ ~Truthy(fname_in)
    THEN \* `if not fname: return`
         [filename |-> filename, current_eol |-> current_eol, fs |-> fs,
          shown |-> <<InputDialog("Save As", fname_in)>>,
          outcome |-> "cancelled", chose |-> FALSE,
          is_dirty |-> DirtyAfterSave("cancelled")]
    ELSE LET fn == IF AsksName THEN fname_in ELSE filename
             eol == EolAfterChoice(eol_in)
             outcome == IF wr = "ok" THEN "ok" ELSE "failed"
         IN  [filename |-> fn, current_eol |-> eol,
              fs |-> WriteFile(fs, fn, Serialize(text, eol), wr, cut),
              shown |-> (IF AsksName
                         THEN <<InputDialog("Save As", fname_in)>>
                         ELSE <<>>)
                        \o <<InputDialog("Select Line Ending", eol_in),
                             SaveMessage(fn, eol, wr)>>,
              outcome |-> outcome,
              chose |-> EolAccepted(eol_in),
              is_dirty |-> DirtyAfterSave(outcome)]

\* A handler raises exc at its first dialog, or at its read of is_dirty:
\* nothing was assigned, no dialog was shown, exit() was not called.
Raises(cmd, exc) ==
    /\ crash' = exc
    /\ shown' = <<>>
    /\ last' = [[cmd |-> cmd] @@ NoInputs EXCEPT !.outcome = "raised"]
    /\ UNCHANGED <<filename, current_eol, fs, is_dirty, eol_chosen, running>>

\* One run of the save handler as part of the command cmd (the save command
\* itself, or the exit command answered ans, whose dialog is `before`): the
\* handler's dialogs are answered and the write succeeds or fails.
SaveBody(cmd, ans, before) ==
    \E fname_in \in (IF AsksName THEN SaveAsInputs ELSE {None}) :
        LET proceeds == ~AsksName \/ Truthy(fname_in)
        IN  \E eol_in \in (IF proceeds THEN EolInputs ELSE {None}),
               wr \in (IF proceeds THEN WriteOutcomes ELSE {"na"}) :
              \E cut \in (IF proceeds
                          THEN Cuts(Serialize(text, EolAfterChoice(eol_in)), wr)
                          ELSE {0}) :
                LET r == SaveRun(fname_in, eol_in, wr, cut)
                IN  /\ filename' = r.filename
                    /\ current_eol' = r.current_eol
                    /\ fs' = r.fs
                    /\ shown' = before \o r.shown
                    /\ is_dirty' = r.is_dirty
                    /\ eol_chosen' = (eol_chosen \/ r.chose)
                    /\ crash' = "none"
                    /\ last' = [cmd |-> cmd, ans |-> ans,
                                fname_in |-> fname_in, eol_in |-> eol_in,
                                lang_in |-> None, wr |-> wr,
                                outcome |-> r.outcome]

Save ==
    /\ running
    /\ IF build.dialogs
       THEN SaveBody("save", None, <<>>)
       ELSE \* line 92 or line 97 raises
            Raises("save", "RuntimeError")
    /\ UNCHANGED <<build, argv, text, current_lang, lexer, running>>

----------------------------------------------------------------------------
(* Ctrl+X: the exit handler *)

\* does the handler end with the application exited?  `event.app.exit()` is
\* its last statement, outside the `if`
ExitsAfterPrompt(ans, outcome) == TRUE

Quit ==
    /\ running
    /\ IF ~build.dirty_attr
       THEN \* line 116 raises
            Raises("quit", "AttributeError")
       ELSE IF is_dirty /\ ~build.dialogs
       THEN \* line 117 raises
            Raises("quit", "RuntimeError")
       ELSE \E ans \in (IF is_dirty THEN QuitInputs ELSE {None}) :
            IF is_dirty /\ AnswerIsYes(ans)
            THEN \* the handler calls the Ctrl+O handler
                 /\ SaveBody("quit", ans, <<InputDialog("Exit", ans)>>)
                 /\ running' = ~ExitsAfterPrompt(ans, last'.outcome)
            ELSE /\ shown' = (IF is_dirty THEN <<InputDialog("Exit", ans)>>
                              ELSE <<>>)
                 /\ running' = ~ExitsAfterPrompt(ans, "none")
                 /\ crash' = "none"
                 /\ last' = [[cmd |-> "quit"] @@ NoInputs EXCEPT !.ans = ans]
                 /\ UNCHANGED <<filename, current_eol, fs, is_dirty,
                                eol_chosen>>
    /\ UNCHANGED <<build, argv, text, current_lang, lexer>>

----------------------------------------------------------------------------
(* Alt+L: the change-language handler *)

\* does line 130 raise for the dialog answer `choice`?  It does when
\* lexer_for does, before current_lang is assigned
LangRaises(choice) ==
    /\ Truthy(choice)
    /\ LangAccepted(lower(choice))
    /\ lexer_for(lower(choice)) = RaisesTypeError

\* the dialogs of the handler for the dialog answer `choice`
LangDialogs(choice) ==
    <<InputDialog("Language", choice)>> \o
    (IF Truthy(choice) /\ ~LangAccepted(lower(choice))
     THEN <<MessageDialog("Error", "Unknown language", <<>>)>>
     ELSE <<>>)

\* current_lang after the handler has run with the dialog answer `choice`
LangAfterChoice(choice) ==
    IF Truthy(choice) /\ LangAccepted(lower(choice)) /\ ~LangRaises(choice)
    THEN lower(choice)
    ELSE current_lang

\* editor.lexer after the handler has run with the dialog answer `choice`
LexerAfterChoice(choice) ==
    IF Truthy(choice) /\ LangAccepted(lower(choice)) /\ ~LangRaises(choice)
    THEN lexer_for(lower(choice))
    ELSE lexer

ChangeLang ==
    /\ running
    /\ IF build.dialogs
       THEN /\ \E choice \in LangInputs :
                /\ current_lang' = LangAfterChoice(choice)
                /\ lexer' = LexerAfterChoice(choice)
                /\ shown' = LangDialogs(choice)
                /\ crash' = (IF LangRaises(choice) THEN "TypeError"
                             ELSE "none")
                /\ last' = [[cmd |-> "lang"] @@ NoInputs
                                EXCEPT !.lang_in = choice,
                                       !.outcome = (IF LangRaises(choice)
                                                    THEN "raised"
                                                    ELSE "none")]
            /\ UNCHANGED <<filename, current_eol, fs, is_dirty, eol_chosen,
                           running>>
       ELSE \* line 125 raises
            /\ Raises("lang", "RuntimeError")
            /\ UNCHANGED <<current_lang, lexer>>
    /\ UNCHANGED <<build, argv, text>>

----------------------------------------------------------------------------

Next ==
    \/ InsertChar
    \/ DeleteChar
    \/ Save
    \/ Quit
    \/ ChangeLang

Spec == Init /\ [][Next]_vars

----------------------------------------------------------------------------
(* Save/load round trips: a session whose document is any text of at most  *)
(* MaxCodecLen characters is saved, and the program is started again on    *)
(* the file it wrote.                                                      *)

CodecTexts == UNION {[1..n -> Chars] : n \in 0..MaxCodecLen}

CodecPath == <<"a",".","p","y">>

\* a session started as `sync a.py` on a new file and edited since, on a
\* build on which startup completes
InitCodec ==
    /\ build \in {b \in Builds :
                    b.compiles /\ b.lexer_cls /\ b.main_runs /\ b.dirty_attr}
    /\ crash = "none"
    /\ argv = CodecPath
    /\ filename = InitialFilename(argv)
    /\ fs = [p \in Paths |-> NoFile]
    /\ text \in CodecTexts
    /\ is_dirty = (text # <<>>)
    /\ current_lang = detect_lang(filename)
    /\ lexer = lexer_for(current_lang)
    /\ current_eol = InitialEol
    /\ running = TRUE
    /\ shown = <<>>
    /\ eol_chosen = FALSE
    /\ last = [cmd |-> (IF text = <<>> THEN "start" ELSE "edit")] @@ NoInputs

\* the program is run again with the same argument: the module-level code
Restart ==
    /\ LET s == Startup(argv, fs)
       IN  /\ crash' = s.crash
           /\ filename' = s.filename
           /\ text' = s.text
           /\ current_lang' = s.current_lang
           /\ lexer' = s.lexer
           /\ current_eol' = s.current_eol
           /\ running' = s.running
    /\ is_dirty' = FALSE
    /\ shown' = <<>>
    /\ eol_chosen' = FALSE
    /\ last' = [cmd |-> "start"] @@ NoInputs
    /\ UNCHANGED <<build, argv, fs>>

NextCodec ==
    \/ Save
    \/ Restart

SpecCodec == InitCodec /\ [][NextCodec]_vars

----------------------------------------------------------------------------
(* Vocabulary of the properties *)

\* a dialog of the given kind and title is among the dialogs sh
ShowsIn(sh, kind, title) ==
    \E i \in 1..Len(sh) : sh[i].kind = kind /\ sh[i].title = title

\* the "Unknown language" error message is among the dialogs sh
ShowsUnknownLanguage(sh) ==
    \E i \in 1..Len(sh) :
        /\ sh[i].kind = "message"
        /\ sh[i].title = "Error"
        /\ sh[i].text = "Unknown language"

\* the characters that are the lower-case letter c up to case: c itself and
\* every character whose lower-case form is c
CaseVariants(c) == {c} \cup {d \in DOMAIN LowerOf : LowerOf[d] = <<c>>}

\* a is b, a lower-case word, up to the case of its letters
SameIgnoringCase(a, b) ==
    /\ Len(a) = Len(b)
    /\ \A i \in 1..Len(a) : a[i] \in CaseVariants(b[i])

\* startup has run to its end and the application was entered
Started == crash = "none" \/ last.cmd # "start"

ModeNames == {unix, dos, mac}

\* the dialog answer names an EOL mode: unix, dos or mac in any case
ValidMode(in) ==
    in # None /\ \E m \in ModeNames : SameIgnoringCase(in, m)

ModeOf(in) == CHOOSE m \in ModeNames : SameIgnoringCase(in, m)

\* the dialog answer is a string that names no supported language
Unsupported(in) ==
    in # None /\ ~\E l \in Range(SUPPORTED_LANGS) : SameIgnoringCase(in, l)

\* the line terminator of each mode, as the specification gives it
Terminator(m) ==
    CASE m = unix -> <<LF>>
      [] m = dos  -> <<CR, LF>>
      [] m = mac  -> <<CR>>

\* the lines of a text: its pieces between line breaks (LF)
RECURSIVE SplitLF(_)
SplitLF(s) ==
    IF \A i \in 1..Len(s) : s[i] # LF THEN <<s>>
    ELSE LET i == CHOOSE k \in 1..Len(s) :
                    s[k] = LF /\ \A j \in 1..(k-1) : s[j] # LF
         IN  <<SubSeq(s, 1, i - 1)>> \o SplitLF(SubSeq(s, i + 1, Len(s)))

\* the lines joined by a terminator
RECURSIVE JoinWith(_, _)
JoinWith(ls, t) ==
    IF Len(ls) = 1 THEN ls[1] ELSE ls[1] \o t \o JoinWith(Tail(ls), t)

\* majority-vote detection over the terminators of raw bytes, as the
\* specification describes it: CR LF pairs, lone LFs and lone CRs are
\* counted, the highest count wins, ties and no terminator give LF
CountCRLF(raw) ==
    Cardinality({i \in 1..(Len(raw)-1) : raw[i] = CR /\ raw[i+1] = LF})

CountLF(raw) ==
    Cardinality({i \in 1..Len(raw) : raw[i] = LF /\ (i = 1 \/ raw[i-1] # CR)})

CountCR(raw) ==
    Cardinality({i \in 1..Len(raw) :
                    raw[i] = CR /\ (i = Len(raw) \/ raw[i+1] # LF)})

Detect(raw) ==
    IF CountCRLF(raw) > CountLF(raw) /\ CountCRLF(raw) > CountCR(raw) THEN dos
    ELSE IF CountCR(raw) > CountLF(raw) /\ CountCR(raw) > CountCRLF(raw)
    THEN mac
    ELSE unix

\* the bytes of a second save, with the same mode, of what the first save
\* wrote and the load read back
RoundTrip(txt, mode) == Serialize(read_text(Serialize(txt, mode)), mode)

----------------------------------------------------------------------------
(* Properties *)

\* C1: when the exit command has prompted for unsaved changes, the outcome
\* follows the answer: on yes the save handler has run and the editor has
\* exited, on no the editor has exited without saving, and on a cancelled
\* prompt the editor is still running.
C1_QuitFollowsAnswer ==
    (last.cmd = "quit" /\ ShowsIn(shown, "input", "Exit")) =>
        /\ (last.ans \in {<<"y">>, <<"Y">>} =>
                last.outcome # "none" /\ ~running)
        /\ (last.ans = <<"n">> => last.outcome = "none" /\ ~running)
        /\ (last.ans = None => running)

\* C2, as claimed: every change-language step whose input is a string that
\* names no supported language leaves current_lang and the lexer as they were
\* and shows the "Unknown language" error.
C2_UnknownLanguageRejected ==
    [][ (last'.cmd = "lang" /\ Unsupported(last'.lang_in)) =>
            /\ current_lang' = current_lang
            /\ lexer' = lexer
            /\ ShowsUnknownLanguage(shown') ]_vars

\* C2, amended: a non-empty input that names no supported language leaves
\* current_lang and the lexer as they were and shows the "Unknown language"
\* error; an empty or cancelled input leaves them as they were and shows no
\* message.
C2_NonEmptyUnknownLanguageRejected ==
    [][ (last'.cmd = "lang"
            /\ (last'.lang_in = None \/ Unsupported(last'.lang_in))) =>
            /\ current_lang' = current_lang
            /\ lexer' = lexer
            /\ ShowsUnknownLanguage(shown') = Truthy(last'.lang_in)
            /\ (~Truthy(last'.lang_in) =>
                    ~ShowsIn(shown', "message", "Error")) ]_vars

\* C2 witness: "zzz" has been entered while the language was python
C2_Witness ==
    /\ last.cmd = "lang"
    /\ last.lang_in = <<"z","z","z">>
    /\ current_lang = python
    /\ lexer = python
    /\ ShowsUnknownLanguage(shown)

\* C3: every step in which the file write of a save fails leaves the
\* document text as it was, shows the failure as an error message and leaves
\* the editor running.
C3_FailedSaveKeepsSession ==
    [][ last'.outcome = "failed" =>
            /\ text' = text
            /\ ShowsIn(shown', "message", "Error")
            /\ running' ]_vars

\* C4, as claimed: started with a path that does not exist, the editor (where
\* startup has run to its end) has an empty document and no bound path, and a
\* save that has run its dialogs while the file is still missing has asked
\* for a filename.
C4_MissingPathUnbound ==
    /\ (last.cmd = "start" /\ Started /\ Truthy(argv) /\ ~fs[argv].exists =>
            text = <<>> /\ filename = None)
    /\ (last.cmd = "save" /\ last.outcome # "raised"
            /\ Truthy(argv) /\ ~fs[argv].exists =>
            ShowsIn(shown, "input", "Save As"))

\* C4, amended: started with a path that does not exist, the editor has an
\* empty document and the path stays bound (wherever startup got as far as
\* binding them): every save of a session started with a path never asks for
\* a filename; it asks for the EOL mode only, unless its first dialog raised
\* and then it has shown nothing, and a successful one writes the document to
\* that path.
C4_MissingPathStaysBound ==
    /\ (last.cmd = "start" /\ filename # Unbound
            /\ Truthy(argv) /\ ~fs[argv].exists =>
            text = <<>> /\ filename = argv)
    /\ (last.cmd = "save" /\ Truthy(argv) =>
            /\ filename = argv
            /\ ~ShowsIn(shown, "input", "Save As")
            /\ IF last.outcome = "raised"
               THEN shown = <<>>
               ELSE ShowsIn(shown, "input", "Select Line Ending")
            /\ (last.outcome = "ok" =>
                    fs[argv] = File(JoinWith(SplitLF(text),
                                             Terminator(current_eol)))))

\* C4 witness: a save in a session started with a path whose file is still
\* missing after it (the write failed at open), so it was missing at startup
C4_Witness ==
    /\ last.cmd = "save"
    /\ Truthy(argv)
    /\ ~fs[argv].exists
    /\ last.wr = "open_fails"
    /\ ~ShowsIn(shown, "input", "Save As")

\* C5: after a save whose file write succeeded the unsaved-changes flag is
\* clear and the status bar shows no dirty marker.
C5_SaveClearsDirty ==
    (last.cmd = "save" /\ last.outcome = "ok") =>
        ~is_dirty /\ status_text[2] = ""

\* C6: the active EOL mode changes only in a save at whose prompt a valid
\* mode (unix, dos or mac, in any case) is entered; a save with an empty,
\* cancelled or malformed EOL input keeps the previously active mode; either
\* way the mode active after the save is the one a successful write used.
C6_EolModeSticky ==
    [][ /\ (current_eol' # current_eol =>
                /\ last'.cmd \in {"save", "quit"}
                /\ last'.outcome \in {"ok", "failed"}
                /\ ValidMode(last'.eol_in))
        /\ (last'.outcome \in {"ok", "failed"} =>
                /\ current_eol' = (IF ValidMode(last'.eol_in)
                                   THEN ModeOf(last'.eol_in)
                                   ELSE current_eol)
                /\ (last'.outcome = "ok" =>
                        fs'[filename'].data =
                            JoinWith(SplitLF(text), Terminator(current_eol'))))
      ]_vars

\* C6 witness: a save with the malformed input "dos " wrote with the mode dos
\* chosen by an earlier save
C6_Witness ==
    /\ last.cmd = "save"
    /\ last.eol_in = <<"d","o","s"," ">>
    /\ last.outcome = "ok"
    /\ current_eol = dos
    /\ \E i \in 1..Len(text) : text[i] = LF

\* C7: a successful save with mode m leaves in the file the lines of the
\* document joined by the terminator of m (unix LF, dos CR LF, mac CR), that
\* is the terminator at every line break and every other character unchanged
\* and in order; and a document without terminators starts with mode unix.
C7_SaveWritesTerminators ==
    /\ (last.outcome = "ok" =>
            /\ fs[filename].data =
                    JoinWith(SplitLF(text), Terminator(current_eol))
            /\ Len(fs[filename].data) =
                    Len(text) + (Len(SplitLF(text)) - 1)
                                    * (Len(Terminator(current_eol)) - 1))
    /\ (last.cmd = "start" /\ (\A i \in 1..Len(text) : text[i] # LF) =>
            current_eol = unix)

\* C7 witness: a document with two line breaks has been saved with mode dos
C7_Witness ==
    /\ last.outcome = "ok"
    /\ current_eol = dos
    /\ text = <<LF, "a", LF>>
    /\ fs[filename].data = <<CR, LF, "a", CR, LF>>

\* C8, as claimed: for the document text of every state and every mode,
\* saving, loading back and saving again gives the bytes of the first save.
C8_RoundTripAnyText ==
    \A mode \in DOMAIN EOL_FORMATS :
        RoundTrip(text, mode) = Serialize(text, mode)

\* C8, amended: the round trip gives the bytes of the first save for every
\* mode and every document text that contains no carriage return.
C8_RoundTripWithoutCR ==
    (\A i \in 1..Len(text) : text[i] # CR) =>
        \A mode \in DOMAIN EOL_FORMATS :
            RoundTrip(text, mode) = Serialize(text, mode)

\* C8 witness: a document with a line break was saved with mode dos and the
\* program started again on the file
C8_Witness ==
    /\ last.cmd = "start"
    /\ fs[filename].data = <<"a", CR, LF, "a">>
    /\ text = <<"a", LF, "a">>

\* C9, as claimed: once startup has run to its end, the active mode is the
\* majority vote over the terminators of the loaded file, unix for a new
\* document.
C9_EolDetectedAtLoad ==
    last.cmd = "start" /\ Started =>
        current_eol = (IF Truthy(filename) /\ fs[filename].exists
                       THEN Detect(fs[filename].data)
                       ELSE unix)

\* C10: in every state the active language, once bound, is one of
\* SUPPORTED_LANGS and the active EOL mode, once bound, is a key of
\* EOL_FORMATS; both are bound while the application is running, so the save
\* handler's lookup EOL_FORMATS[current_eol] never fails.
C10_LangAndEolValid ==
    /\ (current_lang # Unbound =>
            \E i \in 1..Len(SUPPORTED_LANGS) : current_lang = SUPPORTED_LANGS[i])
    /\ (current_eol # Unbound => current_eol \in DOMAIN EOL_FORMATS)
    /\ (running => current_lang # Unbound /\ current_eol # Unbound)

\* C10 witness: a session started on B.JS has taken a malformed EOL input in
\* a save and then an unknown language
C10_Witness ==
    /\ argv = <<"B",".","J","S">>
    /\ current_lang = <<"j","a","v","a","s","c","r","i","p","t">>
    /\ last.cmd = "lang"
    /\ last.lang_in = <<"z","z","z">>
    /\ eol_chosen
    /\ current_eol = mac

============================================================================
